---- MODULE Spec2Model ----
(***************************************************************************)
(* StaticMap (src/src/components/static-map.js): a React PureComponent     *)
(* that owns one Mapbox engine instance.  The model follows one component  *)
(* instance from construction to after unmount.  State updates requested   *)
(* with setState are queued and applied by React either at once or at the  *)
(* end of the running batch.                                               *)
(***************************************************************************)
EXTENDS Integers, Sequences, FiniteSets

\* ---------------------------------------------------------------- bounds
MaxSize == 1        \* measured widths and heights range over 0..MaxSize
MaxLog == 2         \* console.error lines counted within one mount cycle

\* ------------------------------------------------------------- constants
UNAUTHORIZED_ERROR_CODE == 401
\* some status code other than the unauthorized one
OtherErrorCode == UNAUTHORIZED_ERROR_CODE + 99

\* values of the instance fields this._mapbox / this._map
Undefined == "undefined"
Null == "null"
Engine == "engine"

NoStatus == 0 - 1            \* evt.status / evt.error.status absent
\* an engine call that carries no style
NoStyle == [kind |-> "none", ref |-> 0, doc |-> 0]

\* ------------------------------------------------------------ input sets
\* A style descriptor: a string (compared by value) or an Immutable.Map
\* object (compared by reference).  Objects 1 and 2 hold the same document.
Styles ==
  { [kind |-> "string", ref |-> 0, doc |-> 1],
    [kind |-> "immutable", ref |-> 1, doc |-> 2],
    [kind |-> "immutable", ref |-> 2, doc |-> 2] }

Zooms == {0, 1}
NoConstraints == [hasMinZoom |-> FALSE, minZoom |-> 0]
Constraints == { NoConstraints, [hasMinZoom |-> TRUE, minZoom |-> 1] }

AllProps ==
  [ mapStyle : Styles,
    preventStyleDiffing : BOOLEAN,
    disableTokenWarning : BOOLEAN,
    visible : BOOLEAN,
    onViewportChange : BOOLEAN,
    zoom : Zooms,
    visibilityConstraints : Constraints ]

\* defaultProps (lines 74-78); the fields it leaves out are undefined
defaultProps ==
  [ mapStyle |-> [kind |-> "string", ref |-> 0, doc |-> 1],
    preventStyleDiffing |-> FALSE,
    disableTokenWarning |-> FALSE,
    visible |-> TRUE,
    onViewportChange |-> FALSE,
    zoom |-> 0,
    visibilityConstraints |-> NoConstraints ]

Changed(p, q) == {f \in DOMAIN p : q[f] # p[f]}

\* the configurations considered: defaultProps with one field changed, with
\* the style and the style-diffing flag changed, or with the zoom and the
\* visibility constraints changed
Considered(p) ==
  \/ \E f \in DOMAIN defaultProps : Changed(defaultProps, p) \subseteq {f}
  \/ Changed(defaultProps, p) = {"mapStyle", "preventStyleDiffing"}
  \/ Changed(defaultProps, p) = {"zoom", "visibilityConstraints"}

Props == { p \in AllProps : Considered(p) }

Sizes == [width : 0..MaxSize, height : 0..MaxSize]

\* An error event.  hasError: evt.error is an object; errorStatus:
\* evt.error.status; status: evt.status.
NoEvent == [hasError |-> FALSE, errorStatus |-> NoStatus, status |-> NoStatus]
Nested(errorStatus, status) ==
  [hasError |-> TRUE, errorStatus |-> errorStatus, status |-> status]
ErrorEvents ==
  { NoEvent,
    [NoEvent EXCEPT !.status = UNAUTHORIZED_ERROR_CODE],
    Nested(UNAUTHORIZED_ERROR_CODE, NoStatus),
    Nested(OtherErrorCode, NoStatus),
    Nested(0, UNAUTHORIZED_ERROR_CODE),
    Nested(OtherErrorCode, UNAUTHORIZED_ERROR_CODE) }
NoSize == [width |-> 0, height |-> 0]
Operation(name) == [name |-> name, size |-> NoSize, evt |-> NoEvent]

\* The props a parent may pass on a re-render: the same props, one field
\* changed, or the style and the style-diffing flag changed together.
NextProps(p) ==
  LET candidates ==
        {[p EXCEPT !.mapStyle = v] : v \in Styles}
        \cup {[p EXCEPT !.preventStyleDiffing = v] : v \in BOOLEAN}
        \cup {[p EXCEPT !.disableTokenWarning = v] : v \in BOOLEAN}
        \cup {[p EXCEPT !.visible = v] : v \in BOOLEAN}
        \cup {[p EXCEPT !.onViewportChange = v] : v \in BOOLEAN}
        \cup {[p EXCEPT !.zoom = v] : v \in Zooms}
        \cup {[p EXCEPT !.visibilityConstraints = v] : v \in Constraints}
        \cup {[p EXCEPT !.mapStyle = v,
                        !.preventStyleDiffing = ~p.preventStyleDiffing] :
                v \in Styles \ {p.mapStyle}}
  IN  { q \in candidates : Considered(q) }

VARIABLES
  supported,    \* StaticMap.supported() at construction
  phase,        \* "constructed", "rendered", "mounted", "unmounted"
  props,        \* this.props
  state,        \* this.state
  pending,      \* state updates requested by setState and not yet applied,
                \* merged in the order of the requests
  mapbox,       \* this._mapbox
  map,          \* this._map
  nConstruct,   \* engines constructed so far
  nFinalize,    \* finalize calls made so far
  nLog,         \* console.error lines emitted so far, up to unmount
  rendered,     \* output of the latest render
  op,           \* the latest operation and its input
  calls,        \* engine calls made by the latest operation
  logs,         \* console.error lines emitted by the latest operation
  callbacks,    \* onViewportChange invocations of the latest operation
  thrown        \* operations of the latest step that threw a TypeError

vars ==
  << supported, phase, props, state, pending, mapbox, map, nConstruct,
     nFinalize, nLog, rendered, op, calls, logs, callbacks, thrown >>

\* ------------------------------------------------------- pure functions
\* JavaScript truthiness of a status value
Truthy(v) == v # NoStatus /\ v # 0

\* utils/style-utils normalizeStyle: a string passes through, a
\* structured document becomes the plain object the engine consumes.
normalizeStyle(style) ==
  IF style.kind = "string" THEN style
  ELSE [kind |-> "plain", ref |-> style.ref, doc |-> style.doc]

\* utils/map-constraints checkVisibilityConstraints: every threshold must
\* be met; no constraint means visible.
checkVisibilityConstraints(p, constraints) ==
  \/ ~constraints.hasMinZoom
  \/ p.zoom >= constraints.minZoom

\* utils/map-state: new MapState(props + size).getViewportProps()
getViewportProps(p, width, height) ==
  [width |-> width, height |-> height, zoom |-> p.zoom]

\* A partial state {width, height} or {accessTokenInvalid}: has names the
\* keys present.
NoUpdate ==
  [has |-> {}, width |-> 0, height |-> 0, accessTokenInvalid |-> FALSE]
\* mutant: the resize handler requests the whole initial state literal
SizeUpdate_WithToken(width, height) ==
  [has |-> {"width", "height", "accessTokenInvalid"}, width |-> width,
   height |-> height, accessTokenInvalid |-> FALSE]

SizeUpdate(width, height) ==
  [NoUpdate EXCEPT !.has = {"width", "height"}, !.width = width, !.height = height]
TokenUpdate(invalid) ==
  [NoUpdate EXCEPT !.has = {"accessTokenInvalid"}, !.accessTokenInvalid = invalid]

\* Object.assign({}, s, update)
Assign(s, update) ==
  [k \in DOMAIN s |->
     IF k = "has" THEN s[k] \cup update.has
     ELSE IF k \in update.has THEN update[k] ELSE s[k]]

\* React: this.setState(update) queues a partial state; the queued partial
\* states are merged in order
setState(queue, update) == Assign(queue, update)

\* React: the queued partial states are merged into the state
processUpdateQueue(s, queue) ==
  [k \in DOMAIN s |-> IF k \in queue.has THEN queue[k] ELSE s[k]]

\* PureComponent: re-render only when props or state changed
shouldComponentUpdate(oldP, newP, oldS, newS) == oldP # newP \/ oldS # newS

\* a method call through a handle: a TypeError unless the handle is the engine
Dispatch(handle, call, who) ==
  IF handle = Engine THEN [calls |-> <<call>>, thrown |-> {}]
  ELSE [calls |-> <<>>, thrown |-> {who}]

NoEffect == [calls |-> <<>>, thrown |-> {}]

\* run b after a, unless a threw
Then(a, b) ==
  IF a.thrown # {} THEN a
  ELSE [calls |-> a.calls \o b.calls, thrown |-> b.thrown]

EngineCall(name, style, diff) == [op |-> name, style |-> style, diff |-> diff]

\* ------------------------------------------------------------ the methods
\* mutant: resize on every update
_updateMapSize_Always(oldProps, newProps, m) ==
  Dispatch(m, EngineCall("resize", NoStyle, FALSE), "componentDidUpdate")

\* mutant: only the width is compared
_updateMapSize_WidthOnly(oldProps, newProps, m) ==
  IF oldProps.width # newProps.width
  THEN Dispatch(m, EngineCall("resize", NoStyle, FALSE), "componentDidUpdate")
  ELSE NoEffect

_updateMapSize(oldProps, newProps, m) ==
  LET sizeChanged ==
        oldProps.width # newProps.width \/ oldProps.height # newProps.height
  IN  IF sizeChanged
      THEN Dispatch(m, EngineCall("resize", NoStyle, FALSE), "componentDidUpdate")
      ELSE NoEffect

\* mutant: swap the style on every prop update
_updateMapStyle_Always(thisProps, oldProps, newProps, m) ==
  Dispatch(m, EngineCall("setStyle", normalizeStyle(newProps.mapStyle),
                         ~thisProps.preventStyleDiffing),
           "componentWillReceiveProps")

\* thisProps is this.props, still the old props while
\* componentWillReceiveProps runs
_updateMapStyle(thisProps, oldProps, newProps, m) ==
  LET mapStyle == newProps.mapStyle
      oldMapStyle == oldProps.mapStyle
  IN  IF mapStyle # oldMapStyle
      THEN Dispatch(m, EngineCall("setStyle", normalizeStyle(mapStyle),
                                  ~thisProps.preventStyleDiffing),
                    "componentWillReceiveProps")
      ELSE NoEffect

\* this._mapbox.setProps(newProps): the call carries the props as given
setPropsCall(newProps) ==
  [op |-> "setProps", style |-> newProps.mapStyle, diff |-> FALSE,
   props |-> newProps]

\* mutant: the style is swapped before the engine is reconfigured
componentWillReceiveProps_StyleFirst(sup, thisProps, newProps, mb, m) ==
  IF ~sup THEN NoEffect
  ELSE Then(_updateMapStyle(thisProps, thisProps, newProps, m),
            Dispatch(mb, setPropsCall(newProps), "componentWillReceiveProps"))

\* sup: the constructor left the hook in place (it is noop otherwise)
componentWillReceiveProps(sup, thisProps, newProps, mb, m) ==
  IF ~sup THEN NoEffect
  ELSE Then(Dispatch(mb, setPropsCall(newProps), "componentWillReceiveProps"),
            _updateMapStyle(thisProps, thisProps, newProps, m))

\* mutant: the constructor leaves the hook in place when unsupported
componentDidUpdate_NotNoop(sup, prevState, newState, m) ==
  _updateMapSize(prevState, newState, m)

componentDidUpdate(sup, prevState, newState, m) ==
  IF ~sup THEN NoEffect ELSE _updateMapSize(prevState, newState, m)

\* mutant: the warning ignores disableTokenWarning
_renderNoTokenWarning_Unsuppressed(p, s) == s.accessTokenInvalid

_renderNoTokenWarning(p, s) == s.accessTokenInvalid /\ ~p.disableTokenWarning

\* mutant: visibility ignores the visibility constraints
render_VisibleOnly(p, s) ==
  [ width |-> s.width,
    height |-> s.height,
    visibility |-> IF p.visible THEN "visible" ELSE "hidden",
    warning |-> _renderNoTokenWarning(p, s) ]

\* the mapping surface element and the warning; props.viewState is not
\* supplied, so the view is read from the props
render(p, s) ==
  LET visible == p.visible /\ checkVisibilityConstraints(p, p.visibilityConstraints)
  IN  [ width |-> s.width,
        height |-> s.height,
        visibility |-> IF visible THEN "visible" ELSE "hidden",
        warning |-> _renderNoTokenWarning(p, s) ]

\* nothing rendered: before the first render and after unmount
NoRender == [width |-> 0, height |-> 0, visibility |-> "none", warning |-> FALSE]

\* mutant: the top-level status is preferred
statusCode_TopFirst(evt) ==
  IF Truthy(evt.status) THEN evt.status
  ELSE IF evt.hasError THEN evt.errorStatus ELSE evt.status

\* evt.error && evt.error.status || evt.status
statusCode(evt) ==
  IF evt.hasError /\ Truthy(evt.errorStatus) THEN evt.errorStatus
  ELSE evt.status

\* React applies the queued updates: new state, then render and
\* componentDidUpdate when something changed.
Update(sup, oldP, newP, oldS, queue, m, oldRendered) ==
  LET newS == processUpdateQueue(oldS, queue)
      changed == shouldComponentUpdate(oldP, newP, oldS, newS)
  IN  [ state |-> newS,
        rendered |-> IF changed THEN render(newP, newS) ELSE oldRendered,
        effect |-> IF changed THEN componentDidUpdate(sup, oldS, newS, m)
                   ELSE NoEffect ]

\* ------------------------------------------------------------------ Init
Init ==
  /\ supported \in BOOLEAN
  /\ phase = "constructed"
  /\ props \in Props
  /\ state = [width |-> 0, height |-> 0, accessTokenInvalid |-> FALSE]
  /\ pending = NoUpdate
  /\ mapbox = Undefined
  /\ map = Undefined
  /\ nConstruct = 0
  /\ nFinalize = 0
  /\ nLog = 0
  /\ rendered = NoRender
  /\ op = Operation("constructor")
  /\ calls = <<>>
  /\ logs = 0
  /\ callbacks = <<>>
  /\ thrown = {}

\* --------------------------------------------------------------- actions
\* first render of the constructed component
InitialRender ==
  /\ phase = "constructed"
  /\ phase' = "rendered"
  /\ rendered' = render(props, state)
  /\ op' = Operation("render")
  /\ calls' = <<>> /\ logs' = 0 /\ callbacks' = <<>> /\ thrown' = {}
  /\ UNCHANGED << supported, props, state, pending, mapbox, map, nConstruct,
                  nFinalize, nLog >>

\* componentDidMount: new Mapbox(...), this._map = this._mapbox.getMap()
ComponentDidMount ==
  /\ phase = "rendered"
  /\ phase' = "mounted"
  /\ IF supported
     THEN /\ mapbox' = Engine
          /\ map' = Engine
          /\ nConstruct' = nConstruct + 1
          /\ calls' = <<EngineCall("construct", normalizeStyle(props.mapStyle), FALSE)>>
     ELSE /\ UNCHANGED << mapbox, map, nConstruct >>
          /\ calls' = <<>>
  /\ op' = Operation("componentDidMount")
  /\ logs' = 0 /\ callbacks' = <<>> /\ thrown' = {}
  /\ UNCHANGED << supported, props, state, pending, nFinalize, nLog,
                  rendered >>

\* the parent re-renders with newProps: componentWillReceiveProps, then
\* the update (with any queued state), render and componentDidUpdate
PropUpdate(newProps) ==
  /\ phase = "mounted"
  /\ LET cwrp == componentWillReceiveProps(supported, props, newProps, mapbox, map)
         upd == Update(supported, props, newProps, state, pending, map, rendered)
         eff == Then(cwrp, upd.effect)
     IN  /\ props' = newProps
         /\ state' = upd.state
         /\ rendered' = upd.rendered
         /\ calls' = eff.calls
         /\ thrown' = eff.thrown
  /\ pending' = NoUpdate
  /\ op' = Operation("props")
  /\ logs' = 0 /\ callbacks' = <<>>
  /\ UNCHANGED << supported, phase, mapbox, map, nConstruct, nFinalize,
                  nLog >>

\* React applies the state updates queued in the batch
Commit ==
  /\ phase = "mounted"
  /\ pending # NoUpdate
  /\ LET upd == Update(supported, props, props, state, pending, map, rendered)
     IN  /\ state' = upd.state
         /\ rendered' = upd.rendered
         /\ calls' = upd.effect.calls
         /\ thrown' = upd.effect.thrown
  /\ pending' = NoUpdate
  /\ op' = Operation("commit")
  /\ logs' = 0 /\ callbacks' = <<>>
  /\ UNCHANGED << supported, phase, props, mapbox, map, nConstruct, nFinalize,
                  nLog >>

\* what a handler leaves behind: its log lines, its notifications and the
\* state update it requested.  React queues the update of a component that
\* is mounting or mounted and ignores the update of an unmounted one.
Handled(update, emitted, notified) ==
  /\ logs' = emitted
  /\ IF phase = "unmounted"
     THEN UNCHANGED << nLog, pending >>
     ELSE /\ nLog + emitted <= MaxLog
          /\ nLog' = nLog + emitted
          /\ pending' = setState(pending, update)
  /\ callbacks' = notified
  /\ calls' = <<>> /\ thrown' = {}
  /\ UNCHANGED << supported, phase, props, state, rendered, mapbox, map,
                  nConstruct, nFinalize >>

\* mutant: the size is stored only when a callback is supplied
OnResize_OnlyWithCallback(size) ==
  /\ phase \in {"rendered", "mounted", "unmounted"}
  /\ op' = [Operation("resize") EXCEPT !.size = size]
  /\ LET oldViewState == getViewportProps(props, state.width, state.height)
         newViewState == getViewportProps(props, size.width, size.height)
     IN  IF props.onViewportChange
         THEN Handled(SizeUpdate(size.width, size.height), 0,
                      << [new |-> newViewState, old |-> oldViewState] >>)
         ELSE Handled(NoUpdate, 0, <<>>)

\* _onResize({width, height}), called by the AutoSizer child
OnResize(size) ==
  /\ phase \in {"rendered", "mounted", "unmounted"}
  /\ op' = [Operation("resize") EXCEPT !.size = size]
  /\ LET oldViewState == getViewportProps(props, state.width, state.height)
         newViewState == getViewportProps(props, size.width, size.height)
         notified == IF props.onViewportChange
                     THEN << [new |-> newViewState, old |-> oldViewState] >>
                     ELSE <<>>
     IN  Handled(SizeUpdate(size.width, size.height), 0, notified)

\* mutant: any status code counts as an authorization failure
MapboxMapError_AnyStatus(evt) ==
  /\ phase \in {"mounted", "unmounted"}
  /\ nConstruct > 0
  /\ op' = [Operation("error") EXCEPT !.evt = evt]
  /\ IF Truthy(statusCode(evt)) /\ ~state.accessTokenInvalid
     THEN Handled(TokenUpdate(TRUE), 1, <<>>)
     ELSE Handled(NoUpdate, 0, <<>>)

\* _mapboxMapError(evt), called by the engine created at mount
MapboxMapError(evt) ==
  /\ phase \in {"mounted", "unmounted"}
  /\ nConstruct > 0
  /\ op' = [Operation("error") EXCEPT !.evt = evt]
  /\ IF statusCode(evt) = UNAUTHORIZED_ERROR_CODE /\ ~state.accessTokenInvalid
     THEN Handled(TokenUpdate(TRUE), 1, <<>>)
     ELSE Handled(NoUpdate, 0, <<>>)

\* mutant: componentWillUnmount forgets to null this._map
ComponentWillUnmount_KeepsMap ==
  /\ phase = "mounted"
  /\ phase' = "unmounted"
  /\ IF supported
     THEN LET eff == Dispatch(mapbox, EngineCall("finalize", NoStyle, FALSE),
                              "componentWillUnmount")
          IN  /\ calls' = eff.calls
              /\ thrown' = eff.thrown
              /\ nFinalize' = nFinalize + Len(eff.calls)
              /\ mapbox' = IF eff.thrown = {} THEN Null ELSE mapbox
              /\ map' = map
     ELSE /\ calls' = <<>> /\ thrown' = {}
          /\ UNCHANGED << nFinalize, mapbox, map >>
  /\ pending' = NoUpdate
  /\ rendered' = NoRender
  /\ op' = Operation("componentWillUnmount")
  /\ logs' = 0 /\ callbacks' = <<>>
  /\ UNCHANGED << supported, props, state, nConstruct, nLog >>

\* componentWillUnmount
ComponentWillUnmount ==
  /\ phase = "mounted"
  /\ phase' = "unmounted"
  /\ IF supported
     THEN LET eff == Dispatch(mapbox, EngineCall("finalize", NoStyle, FALSE),
                              "componentWillUnmount")
          IN  /\ calls' = eff.calls
              /\ thrown' = eff.thrown
              /\ nFinalize' = nFinalize + Len(eff.calls)
              /\ mapbox' = IF eff.thrown = {} THEN Null ELSE mapbox
              /\ map' = IF eff.thrown = {} THEN Null ELSE map
     ELSE /\ calls' = <<>> /\ thrown' = {}
          /\ UNCHANGED << nFinalize, mapbox, map >>
  /\ pending' = NoUpdate
  /\ rendered' = NoRender
  /\ op' = Operation("componentWillUnmount")
  /\ logs' = 0 /\ callbacks' = <<>>
  /\ UNCHANGED << supported, props, state, nConstruct, nLog >>

\* getMap(), called by an external holder of the instance
GetMap ==
  /\ phase \in {"mounted", "unmounted"}
  /\ op' = Operation("getMap")
  /\ calls' = <<>> /\ logs' = 0 /\ callbacks' = <<>> /\ thrown' = {}
  /\ UNCHANGED << supported, phase, props, state, pending, mapbox, map,
                  nConstruct, nFinalize, nLog, rendered >>

\* queryRenderedFeatures(geometry, options), called by an external holder
QueryRenderedFeatures ==
  /\ phase \in {"mounted", "unmounted"}
  /\ op' = Operation("queryRenderedFeatures")
  /\ LET eff == Dispatch(map, EngineCall("queryRenderedFeatures", NoStyle, FALSE),
                         "queryRenderedFeatures")
     IN  /\ calls' = eff.calls
         /\ thrown' = eff.thrown
  /\ logs' = 0 /\ callbacks' = <<>>
  /\ UNCHANGED << supported, phase, props, state, pending, mapbox, map,
                  nConstruct, nFinalize, nLog, rendered >>

Next ==
  \/ InitialRender
  \/ ComponentDidMount
  \/ \E newProps \in NextProps(props) : PropUpdate(newProps)
  \/ Commit
  \/ \E size \in Sizes : OnResize(size)
  \/ \E evt \in ErrorEvents : MapboxMapError(evt)
  \/ ComponentWillUnmount
  \/ GetMap
  \/ QueryRenderedFeatures

Spec == Init /\ [][Next]_vars

\* ---------------------------------------------------------------- claims
Made(name) == {i \in 1..Len(calls) : calls[i].op = name}
Made_(name) == {i \in 1..Len(calls') : calls'[i].op = name}

\* C1: an update that leaves the stored width and height as they were makes
\* no resize call on the engine; so nothing that happens before the first
\* size report resizes the engine.
C1_NoResizeWithoutSizeChange ==
  [][ (state'.width = state.width /\ state'.height = state.height)
        => Made_("resize") = {} ]_vars

\* an error event was committed before any size was measured: an update of
\* a mounted component that leaves the size at 0x0
C1_Witness ==
  /\ supported /\ phase = "mounted" /\ op.name = "commit"
  /\ state.accessTokenInvalid
  /\ state.width = 0 /\ state.height = 0

\* C2: a prop update whose style descriptor is the one already held makes
\* no setStyle call, whatever else changed.
C2_NoStyleSwapForSameStyle ==
  [][ (op'.name = "props" /\ props'.mapStyle = props.mapStyle)
        => Made_("setStyle") = {} ]_vars

\* a prop update of a live component that changed visibility only
C2_Witness ==
  /\ supported /\ op.name = "props"
  /\ ~props.visible
  /\ Made("setProps") # {} /\ Made("setStyle") = {}

\* C3: where the engine is supported, unmount makes exactly one finalize
\* call and nulls both handles in that step; a mount-to-unmount cycle
\* constructs once and finalizes once, and no engine call follows finalize.
C3_OneTeardown ==
  supported =>
    /\ op.name = "componentWillUnmount" =>
          /\ Len(calls) = 1 /\ calls[1].op = "finalize"
          /\ mapbox = Null /\ map = Null
    /\ phase = "unmounted" => nConstruct = 1 /\ nFinalize = 1
    /\ phase = "mounted" => nConstruct = 1 /\ nFinalize = 0
    /\ phase \in {"constructed", "rendered"} => nConstruct = 0 /\ nFinalize = 0
    /\ (phase = "unmounted" /\ op.name # "componentWillUnmount") => calls = <<>>

\* an external query arrives after the engine was finalized
C3_Witness ==
  /\ supported /\ phase = "unmounted" /\ nFinalize = 1
  /\ op.name = "queryRenderedFeatures"

\* C4: every method dispatched through this._mapbox or this._map finds the
\* handle live: no operation dereferences a handle that is undefined or null.
C4_HandleLiveAtEveryDispatch == thrown = {}

\* C5: a resize report or an error event delivered after unmount has no
\* effect: no log line, no view-change callback, no engine call, no
\* exception.
C5_LateEventHasNoEffect ==
  (phase = "unmounted" /\ op.name \in {"resize", "error"})
    => logs = 0 /\ callbacks = <<>> /\ calls = <<>> /\ thrown = {}

\* C6: an error event whose status code is 401, handled while the
\* invalid-token flag is not set, emits exactly one log line and requests
\* the flag; the flag is set when the request is applied; every render shows
\* the warning exactly when the flag is set and disableTokenWarning is not.
C6_UnauthorizedWarning ==
  [][ /\ ( /\ op'.name = "error" /\ phase = "mounted"
           /\ statusCode(op'.evt) = UNAUTHORIZED_ERROR_CODE
           /\ ~state.accessTokenInvalid )
        => ( /\ logs' = 1
             /\ "accessTokenInvalid" \in pending'.has
             /\ pending'.accessTokenInvalid )
      /\ ( /\ "accessTokenInvalid" \in pending.has /\ pending.accessTokenInvalid
           /\ op'.name \in {"commit", "props"} )
        => state'.accessTokenInvalid
      /\ rendered'.visibility # "none"
        => (rendered'.warning <=>
              (state'.accessTokenInvalid /\ ~props'.disableTokenWarning)) ]_vars

\* the flag was set by one logged 401 and the warning is suppressed
C6_Witness ==
  /\ phase = "mounted" /\ nLog = 1
  /\ state.accessTokenInvalid /\ props.disableTokenWarning
  /\ rendered.visibility # "none" /\ ~rendered.warning

\* C7: within one mount cycle at most one log line is emitted, whatever
\* error events arrive and whenever the state updates are applied.
C7_AtMostOneLogLine == nLog <= 1

\* C8: the invalid-token flag starts false and, once true, stays true.
C8_FlagMonotonic ==
  /\ ~state.accessTokenInvalid
  /\ [][ state.accessTokenInvalid => state'.accessTokenInvalid ]_vars

\* a size report was applied while the flag was set
C8_Witness ==
  /\ phase = "mounted" /\ op.name = "commit"
  /\ state.accessTokenInvalid /\ Made("resize") # {}

\* C9: in an unsupported environment no engine is constructed, no engine
\* method is invoked and no lifecycle hook, resize report or render throws.
C9_UnsupportedIsHarmless ==
  ~supported =>
    /\ nConstruct = 0 /\ nFinalize = 0
    /\ mapbox = Undefined /\ map = Undefined
    /\ calls = <<>>
    /\ thrown \subseteq {"queryRenderedFeatures"}

\* an unsupported component measured a size, rendered it and was unmounted
C9_Witness ==
  /\ ~supported /\ phase = "unmounted"
  /\ state.width = 1 /\ state.height = 1

\* C10: every render gives the mapping surface visibility 'hidden' when the
\* visible flag is false or a visibility constraint fails for the view, and
\* 'visible' otherwise; a render or an update neither constructs nor
\* finalizes the engine nor changes the handles, and a query on a hidden
\* live map reaches the engine.
C10_HiddenNotTornDown ==
  [][ /\ rendered'.visibility # "none"
        => rendered'.visibility =
             IF \/ ~props'.visible
                \/ /\ props'.visibilityConstraints.hasMinZoom
                   /\ props'.zoom < props'.visibilityConstraints.minZoom
             THEN "hidden" ELSE "visible"
      /\ op'.name \in {"render", "props", "commit"}
        => /\ nConstruct' = nConstruct /\ nFinalize' = nFinalize
           /\ mapbox' = mapbox /\ map' = map
      /\ ( /\ op'.name = "queryRenderedFeatures" /\ supported
           /\ phase = "mounted" /\ rendered.visibility = "hidden" )
        => Made_("queryRenderedFeatures") # {} /\ thrown' = {} ]_vars

\* a query on a live map that its visibility constraints hide
C10_Witness ==
  /\ supported /\ phase = "mounted" /\ op.name = "queryRenderedFeatures"
  /\ props.visible /\ rendered.visibility = "hidden"
  /\ Made("queryRenderedFeatures") # {}

SizeOf(r) == [width |-> r.width, height |-> r.height]

\* C11: a supplied view-change callback is invoked with (newViewState, {},
\* oldViewState) once for a size report that differs from the stored size
\* and not for a report equal to it, nor for any other operation; without
\* a callback nothing is invoked.
C11_CallbackExactlyOnSizeChange ==
  phase \in {"rendered", "mounted"} =>
    /\ op.name # "resize" => callbacks = <<>>
    /\ (op.name = "resize" /\ ~props.onViewportChange) => callbacks = <<>>
    /\ (op.name = "resize" /\ props.onViewportChange) =>
          IF op.size # SizeOf(state)
          THEN /\ Len(callbacks) = 1
               /\ SizeOf(callbacks[1].new) = op.size
               /\ SizeOf(callbacks[1].old) = SizeOf(state)
          ELSE callbacks = <<>>

\* C12: where the engine exists, a step that changes the stored size of a
\* mounted component makes exactly one resize call, in the update that
\* committed and rendered the new size; the resize handler itself makes none.
C12_ResizeOnceAfterCommit ==
  [][ /\ ( /\ supported /\ phase = "mounted" /\ phase' = "mounted"
           /\ SizeOf(state') # SizeOf(state) )
        => ( /\ Cardinality(Made_("resize")) = 1
             /\ op'.name \in {"commit", "props"}
             /\ SizeOf(rendered') = SizeOf(state') )
      /\ op'.name = "resize" => (Made_("resize") = {} /\ state' = state) ]_vars

\* a height-only change was committed, rendered and followed by one resize
C12_Witness ==
  /\ supported /\ phase = "mounted" /\ op.name = "commit"
  /\ state.width = 0 /\ state.height = 1
  /\ rendered.height = 1
  /\ Cardinality(Made("resize")) = 1

\* C13: a prop update that changes the style descriptor makes exactly one
\* setStyle call, whose diff option is false exactly when the props of that
\* update set preventStyleDiffing.
C13_DiffFollowsNewFlag ==
  [][ ( /\ op'.name = "props" /\ supported
        /\ props'.mapStyle # props.mapStyle )
        => /\ Cardinality(Made_("setStyle")) = 1
           /\ \A i \in Made_("setStyle") :
                 calls'[i].diff = ~props'.preventStyleDiffing ]_vars

\* C14: every style handed to the engine adapter, at construction, on
\* reconfiguration and on a style swap, is in normalized form: a string or
\* a plain object, never the caller's wrapper object.
C14_StylesReachAdapterNormalized ==
  \A i \in 1..Len(calls) :
    calls[i].op \in {"construct", "setProps", "setStyle"}
      => calls[i].style.kind \in {"string", "plain"}

\* C15: where the engine exists, a prop update makes exactly one setProps
\* call, with the new props and before any setStyle call, and neither
\* finalizes nor constructs an engine: the handles stay the engine of mount.
C15_OneReconfigurePerUpdate ==
  [][ (op'.name = "props" /\ supported)
        => /\ Made_("setProps") = {1}
           /\ calls'[1].props = props'
           /\ \A i \in Made_("setStyle") : i > 1
           /\ Made_("finalize") = {} /\ Made_("construct") = {}
           /\ nConstruct' = nConstruct /\ nFinalize' = nFinalize
           /\ mapbox = Engine /\ mapbox' = Engine
           /\ map = Engine /\ map' = Engine ]_vars

\* a prop update that reconfigured the engine and then swapped the style
C15_Witness ==
  /\ supported /\ phase = "mounted" /\ op.name = "props"
  /\ Len(calls) >= 2
  /\ calls[1].op = "setProps" /\ calls[2].op = "setStyle"

\* the size part of the requested state updates
RequestedSize(q) ==
  IF "width" \in q.has THEN <<SizeOf(q)>> ELSE <<>>

\* C16: only the resize handler requests a new stored size, and it requests
\* the reported one with or without a callback; the stored size changes
\* only when such a request is applied, and no other operation touches it.
C16_SizeOnlyFromResizeHandler ==
  [][ /\ (op'.name = "resize" /\ phase \in {"rendered", "mounted"})
        => RequestedSize(pending') = <<op'.size>>
      /\ op'.name # "resize"
        => (RequestedSize(pending') = RequestedSize(pending) \/ pending' = NoUpdate)
      /\ op'.name \in {"commit", "props"}
        => SizeOf(state') = IF RequestedSize(pending) = <<>> THEN SizeOf(state)
                            ELSE RequestedSize(pending)[1]
      /\ op'.name \notin {"commit", "props"}
        => SizeOf(state') = SizeOf(state) ]_vars

\* a size reported to a component without a callback was stored
C16_Witness ==
  /\ phase = "mounted" /\ op.name = "commit"
  /\ ~props.onViewportChange
  /\ state.width = 1 /\ state.height = 1

\* the status code in either location is 401
Either401(evt) ==
  \/ evt.hasError /\ evt.errorStatus = UNAUTHORIZED_ERROR_CODE
  \/ evt.status = UNAUTHORIZED_ERROR_CODE

\* the nested status when it is a non-zero number, else the top-level one
ResolvedStatus(evt) ==
  IF evt.hasError /\ evt.errorStatus \notin {NoStatus, 0}
  THEN evt.errorStatus ELSE evt.status

\* an event handled as an authorization failure: logged, flag requested
TreatedAsUnauthorized ==
  /\ logs = 1
  /\ "accessTokenInvalid" \in pending.has /\ pending.accessTokenInvalid

\* C17 as stated: an error event with 401 in either location, handled by a
\* mounted component whose flag is not set, is treated as an authorization
\* failure.
C17_EitherLocation ==
  ( /\ op.name = "error" /\ phase = "mounted" /\ ~state.accessTokenInvalid
    /\ Either401(op.evt) )
    => TreatedAsUnauthorized

\* C17 as amended: the event is treated as an authorization failure exactly
\* when the nested status, if it is a non-zero number, or else the top-level
\* status, is 401.
C17_NestedStatusFirst ==
  (op.name = "error" /\ phase = "mounted" /\ ~state.accessTokenInvalid)
    => IF ResolvedStatus(op.evt) = UNAUTHORIZED_ERROR_CODE
       THEN TreatedAsUnauthorized
       ELSE logs = 0

\* an event with another nested code and a top-level 401 went unlogged
C17_Witness ==
  /\ op.name = "error" /\ phase = "mounted" /\ ~state.accessTokenInvalid
  /\ op.evt = Nested(OtherErrorCode, UNAUTHORIZED_ERROR_CODE)
  /\ logs = 0 /\ "accessTokenInvalid" \notin pending.has

\* C18: an error event whose resolved status code is not 401 emits no log
\* line, requests and changes no state, calls no engine method and leaves
\* the rendered output, the warning included, as it was.
C18_OtherErrorsIgnored ==
  [][ (op'.name = "error" /\ ResolvedStatus(op'.evt) # UNAUTHORIZED_ERROR_CODE)
        => /\ logs' = 0 /\ nLog' = nLog
           /\ state' = state /\ pending' = pending
           /\ calls' = <<>> /\ thrown' = {}
           /\ rendered' = rendered ]_vars

\* an error event with another status code arrived at a mounted component
C18_Witness ==
  /\ op.name = "error" /\ phase = "mounted"
  /\ op.evt = Nested(OtherErrorCode, NoStatus)
  /\ logs = 0 /\ ~rendered.warning

\* C19: of two notifications made one right after the other to a mounted
\* component, the oldViewState of the second carries the size that the
\* newViewState of the first carried.
C19_OldIsPrecedingNew ==
  [][ ( /\ phase = "mounted"
        /\ op.name = "resize" /\ callbacks # <<>>
        /\ op'.name = "resize" /\ callbacks' # <<>> )
        => SizeOf(callbacks'[1].old) = SizeOf(callbacks[1].new) ]_vars
====
